---- MODULE Spec2Model ----
(***************************************************************************)
(* AutoPM-AI frontend: App (query, uploaded files, interaction flags),     *)
(* RecommendationInput (the text box), FileUpload (the file collector) and *)
(* RecommendationResults (the component that posts query + files to        *)
(* /api/recommendations and shows loading / error / result).               *)
(*                                                                         *)
(* One action per event handler.  A handler's action includes the render   *)
(* and the effects React runs because of the handler's state updates.      *)
(***************************************************************************)
EXTENDS Naturals, Sequences, FiniteSets

\* ---------------------------------------------------------------- bounds
\* longest file sequence held by the file collector
MaxFiles == 2
\* number of requests issued in one run
MaxRequests == 2

\* the files a user can pick
FileIds == {"f1", "f2"}

SeqsUpTo(S, n) == UNION {[1..k -> S] : k \in 0..n}
\* the texts a user types into the query box: empty, whitespace only, plain,
\* and with whitespace around it
Texts == {<<>>, <<" ">>, <<"a">>, <<" ", "b", " ">>}

\* ------------------------------------------------------------ JS values
\* string | null | undefined, as the component's useState cells hold them
Null == [t |-> "null", s |-> ""]
Undefined == [t |-> "undefined", s |-> ""]
Str(x) == [t |-> "string", s |-> x]
\* JavaScript truthiness of such a value
Truthy(v) == v.t = "string" /\ v.s # ""

\* String.prototype.trim on a sequence of characters
IsSpace(c) == c = " "
RECURSIVE TrimStart(_)
TrimStart(s) == IF s # <<>> /\ IsSpace(Head(s)) THEN TrimStart(Tail(s)) ELSE s
RECURSIVE TrimEnd(_)
TrimEnd(s) ==
  IF s # <<>> /\ IsSpace(s[Len(s)]) THEN TrimEnd(SubSeq(s, 1, Len(s) - 1)) ELSE s
\* (variant: the text is tested without trimming)
TrimNothing(s) == s
Trim(s) == TrimEnd(TrimStart(s))

\* --------------------------------------------------------------- state
VARIABLES
  uploadedFiles,    \* App: useState<File[]>([])
  query,            \* App: useState<string>('')
  showResults,      \* App: useState(false)
  isInteracting,    \* App: useState(false)
  inputQuery,       \* RecommendationInput: its own useState('') text
  instance,         \* number of RecommendationResults instances mounted so far
  recommendations,  \* RecommendationResults: useState<string | null>(null)
  loading,          \* RecommendationResults: useState(true)
  error,            \* RecommendationResults: useState<string | null>(null)
  inflight,         \* fetches whose promise has not settled
  nextId,           \* id the next request gets
  latestOutcome,    \* what the most recently issued request was answered with
  last              \* the event that led to this state

vars == <<uploadedFiles, query, showResults, isInteracting, inputQuery, instance,
          recommendations, loading, error, inflight, nextId, latestOutcome, last>>

\* ----------------------------------------------------- the HTTP exchange
\* messages of the errors the JavaScript runtime itself throws
FetchErrorMessage == "Failed to fetch"
TypeErrorMessage == "Cannot read properties of null"
SyntaxErrorMessage == "Unexpected token in JSON"
GenericMessage == "Failed to get recommendations"
NonErrorMessage == "An error occurred"

\* A body: text that is not JSON, the JSON value null, or a JSON object with
\* the two fields the component reads (Undefined when the field is absent).
Body(json, detail, recs) == [json |-> json, detail |-> detail, recommendations |-> recs]
NoBody == Body("invalid", Undefined, Undefined)
FailureBodies ==
  {NoBody, Body("null", Undefined, Undefined)}
    \cup {Body("object", d, Undefined) : d \in {Undefined, Str(""), Str("rate limited")}}
SuccessBodies ==
  {NoBody, Body("null", Undefined, Undefined)}
    \cup {Body("object", Undefined, r) : r \in {Undefined, Str(""), Str("r1"), Str("r2")}}

\* What fetch() settles with: a rejection (no response), or a response.
Response(rejects, ok, statusText, body) ==
  [rejects |-> rejects, ok |-> ok, statusText |-> statusText, body |-> body]
NetworkFailure == Response(TRUE, FALSE, "", NoBody)
Responses ==
  {NetworkFailure}
    \cup {Response(FALSE, FALSE, st, NoBody) : st \in {"", "Bad Gateway"}}
    \cup {Response(FALSE, FALSE, "Bad Gateway", b) : b \in FailureBodies}
    \cup {Response(FALSE, TRUE, "OK", b) : b \in SuccessBodies}
\* placeholder for "no response in this event"
NoResponse == Response(FALSE, FALSE, "none", NoBody)

\* The value a throw carries and the value a normal completion carries.
Thrown(msg) == [threw |-> TRUE, isError |-> TRUE, message |-> msg, data |-> Undefined]
Returned(data) == [threw |-> FALSE, isError |-> FALSE, message |-> "", data |-> data]
Pending == [threw |-> FALSE, isError |-> FALSE, message |-> "pending", data |-> Undefined]

\* res.json().catch(() => ({ detail: res.statusText })) of a non-2xx response
ErrBody(resp) ==
  IF resp.body.json = "invalid"
    THEN Body("object", Str(resp.statusText), Undefined)
    ELSE resp.body

\* throw new Error(err.detail || 'Failed to get recommendations')
\* (variant: the detail is dropped and the generic message always used)
ErrDetailAlwaysGeneric(resp) == GenericMessage
ErrDetail(resp) ==
  IF Truthy(ErrBody(resp).detail) THEN ErrBody(resp).detail.s ELSE GenericMessage

\* The try block of fetchRecommendations from the fetch on: what it throws
\* or what data.recommendations it reaches setRecommendations with.
TryBlock(resp) ==
  IF resp.rejects THEN Thrown(FetchErrorMessage)
  ELSE IF ~resp.ok
    THEN IF ErrBody(resp).json = "null"
           THEN Thrown(TypeErrorMessage)
           ELSE Thrown(ErrDetail(resp))
  ELSE IF resp.body.json = "invalid" THEN Thrown(SyntaxErrorMessage)
  ELSE IF resp.body.json = "null" THEN Thrown(TypeErrorMessage)
  ELSE Returned(resp.body.recommendations)

\* e instanceof Error ? e.message : 'An error occurred'
CatchMessage(e) == IF e.isError THEN e.message ELSE NonErrorMessage

\* ------------------------------------------- RecommendationResults state
Comp(r, l, e) == [recommendations |-> r, loading |-> l, error |-> e]
\* the three useState initial values
InitialComp == Comp(Null, TRUE, Null)

\* setLoading(true); setError(null)
\* (variant: without setError(null))
FetchStartKeepsError(c) == [c EXCEPT !.loading = TRUE]
FetchStart(c) == [c EXCEPT !.loading = TRUE, !.error = Null]

\* setRecommendations(data.recommendations) / catch setError(...) / finally
\* setLoading(false)
\* (variant: setLoading(false) at the end of the try block, no finally)
SettleNoFinally(c, o) ==
  IF o.threw
    THEN [c EXCEPT !.error = Str(CatchMessage(o))]
    ELSE [c EXCEPT !.recommendations = o.data, !.loading = FALSE]
Settle(c, o) ==
  IF o.threw
    THEN [c EXCEPT !.error = Str(CatchMessage(o)), !.loading = FALSE]
    ELSE [c EXCEPT !.recommendations = o.data, !.loading = FALSE]

\* ------------------------------------------------------------ rendering
Shown(kind, text) == [kind |-> kind, text |-> text]

\* The render branches of RecommendationResults.
RenderResults(c) ==
  IF c.loading THEN Shown("Loading", "")
  ELSE IF Truthy(c.error) THEN Shown("Error", c.error.s)
  ELSE IF ~Truthy(c.recommendations) THEN Shown("Blank", "")
  ELSE Shown("Success", c.recommendations.s)

\* Where App mounts RecommendationResults: in the glass card, above the fixed
\* input, or nowhere.
ResultsSlot(show, inter, files) ==
  IF show /\ Len(files) > 0 /\ ~inter THEN "card"
  ELSE IF inter /\ show /\ Len(files) > 0 THEN "above"
  ELSE "none"

\* The 'Upload documents to get AI-powered recommendations' paragraph.
PromptShown(show, inter, files) == show /\ Len(files) = 0 /\ ~inter

\* What the results area of the page shows.
DisplayOf(show, inter, files, c) ==
  IF ResultsSlot(show, inter, files) # "none" THEN RenderResults(c)
  ELSE IF PromptShown(show, inter, files) THEN Shown("NeedsFiles", "")
  ELSE Shown("Nothing", "")

Display ==
  DisplayOf(showResults, isInteracting, uploadedFiles,
            Comp(recommendations, loading, error))

\* ------------------------------------------------- the effect's requests
\* useEffect(..., [query, files]): the effect runs when the component mounts
\* and when it re-renders with a changed query or a new files array; the
\* fetch is skipped by `if (files.length === 0) return`.
\* (variant: the effect hoisted out of the conditionally mounted component,
\* without the length check)
IssuesRequestUnguarded(before, after, depsChanged, files) ==
  before # after \/ depsChanged
\* (variant: an empty dependency array, the effect runs on mount only)
IssuesRequestOnMountOnly(before, after, depsChanged, files) ==
  /\ after # "none"
  /\ before # after
  /\ Len(files) # 0
IssuesRequest(before, after, depsChanged, files) ==
  /\ after # "none"
  /\ before # after \/ depsChanged
  /\ Len(files) # 0

\* formData.append('query', query); files.forEach(append('files', file)),
\* posted by the instance `inst` of the component
\* (variant: only the first file is appended)
RequestFirstFile(id, q, files, inst) ==
  [id |-> id, query |-> q, files |-> SubSeq(files, 1, 1), inst |-> inst]
Request(id, q, files, inst) == [id |-> id, query |-> q, files |-> files, inst |-> inst]

\* The event that led to the current state.
Event(op, accepted, changed, issued, answered, sole, live, resp, prev, wrote) ==
  [op |-> op, accepted |-> accepted, changed |-> changed, issued |-> issued,
   answered |-> answered, sole |-> sole, live |-> live, resp |-> resp,
   prev |-> prev, wrote |-> wrote]
NoDisplay == Shown("None", "")

\* Whether request r was posted by the instance that is mounted now.
\* (variant: the state lives outside the component instance)
LiveAnyInstance(r) == ResultsSlot(showResults, isInteracting, uploadedFiles) # "none"
Live(r) ==
  /\ ResultsSlot(showResults, isInteracting, uploadedFiles) # "none"
  /\ r.inst = instance

\* React commits App's new state (q, files, show, inter): the results
\* component is unmounted, mounted afresh or re-rendered, and its effect runs.
\* depsChanged: the effect's dependency array differs from the last render's.
Commit(q, files, show, inter, depsChanged) ==
  LET before == ResultsSlot(showResults, isInteracting, uploadedFiles)
      after == ResultsSlot(show, inter, files)
      mounts == after # "none" /\ after # before
      fetches == IssuesRequest(before, after, depsChanged, files)
      kept == IF after = "none" \/ mounts
                THEN InitialComp
                ELSE Comp(recommendations, loading, error)
      c == IF fetches THEN FetchStart(kept) ELSE kept
  IN /\ fetches => nextId <= MaxRequests
     /\ uploadedFiles' = files
     /\ query' = q
     /\ showResults' = show
     /\ isInteracting' = inter
     /\ instance' = IF mounts THEN instance + 1 ELSE instance
     /\ recommendations' = c.recommendations
     /\ loading' = c.loading
     /\ error' = c.error
     /\ inflight' = IF fetches
                      THEN inflight \cup {Request(nextId, q, files, instance')}
                      ELSE inflight
     /\ nextId' = IF fetches THEN nextId + 1 ELSE nextId
     /\ latestOutcome' = IF fetches THEN Pending ELSE latestOutcome

\* ---------------------------------------------------------------- Init
Init ==
  /\ uploadedFiles = <<>>
  /\ query = <<>>
  /\ showResults = FALSE
  /\ isInteracting = FALSE
  /\ inputQuery = <<>>
  /\ instance = 0
  /\ recommendations = InitialComp.recommendations
  /\ loading = InitialComp.loading
  /\ error = InitialComp.error
  /\ inflight = {}
  /\ nextId = 1
  /\ latestOutcome = Pending
  /\ last = Event("init", FALSE, FALSE, 0, 0, FALSE, FALSE, NoResponse,
                  NoDisplay, NoDisplay)

\* -------------------------------------------------------------- actions
\* RecommendationInput: onChange={(e) => setQuery(e.target.value)}
\* (variant: the text is lifted into App's query state)
onChangeLifted(t) ==
  /\ t # inputQuery
  /\ inputQuery' = t
  /\ Commit(t, uploadedFiles, showResults, isInteracting, t # query)
  /\ last' = Event("type", FALSE, FALSE, IF nextId' # nextId THEN nextId ELSE 0, 0,
                   FALSE, FALSE, NoResponse, Display, NoDisplay)
onChange(t) ==
  /\ t # inputQuery
  /\ inputQuery' = t
  /\ UNCHANGED <<uploadedFiles, query, showResults, isInteracting, instance,
                 recommendations, loading, error, inflight, nextId, latestOutcome>>
  /\ last' = Event("type", FALSE, FALSE, 0, 0, FALSE, FALSE, NoResponse,
                   Display, NoDisplay)

\* App.handleQuerySubmit: setQuery; setShowResults(true); setIsInteracting(true)
\* (variant: without setIsInteracting(true))
handleQuerySubmitKeepsInteracting(submittedQuery) ==
  Commit(submittedQuery, uploadedFiles, TRUE, isInteracting, submittedQuery # query)
handleQuerySubmit(submittedQuery) ==
  Commit(submittedQuery, uploadedFiles, TRUE, TRUE, submittedQuery # query)

\* RecommendationInput.handleSubmit: if (query.trim()) onSubmit(query)
handleSubmit ==
  /\ IF Trim(inputQuery) # <<>>
       THEN handleQuerySubmit(inputQuery)
       ELSE UNCHANGED <<uploadedFiles, query, showResults, isInteracting, instance,
                        recommendations, loading, error, inflight, nextId,
                        latestOutcome>>
  /\ UNCHANGED inputQuery
  /\ last' = Event("submit", Trim(inputQuery) # <<>>, query' # query,
                   IF nextId' # nextId THEN nextId ELSE 0, 0, FALSE, FALSE,
                   NoResponse, Display, NoDisplay)

\* onFilesChange([...uploadedFiles, ...files]) of handleDrop / handleFileSelect
AppendFiles(files) ==
  /\ Len(uploadedFiles) + Len(files) <= MaxFiles
  /\ Commit(query, uploadedFiles \o files, showResults, isInteracting, TRUE)
  /\ UNCHANGED inputQuery
  /\ last' = Event("add", FALSE, FALSE, IF nextId' # nextId THEN nextId ELSE 0, 0,
                   FALSE, FALSE, NoResponse, Display, NoDisplay)

\* FileUpload.handleDrop: files = Array.from(e.dataTransfer.files)
handleDrop(files) == AppendFiles(files)

\* FileUpload.handleFileSelect: if (e.target.files) files = Array.from(...)
handleFileSelect(files) == AppendFiles(files)

\* uploadedFiles.filter((_, i) => i !== index), index counted from 1 here
\* (variant: filtering by value, which drops every copy of the file)
WithoutValue(files, index) == SelectSeq(files, LAMBDA f : f # files[index])
WithoutIndex(files, index) ==
  SubSeq(files, 1, index - 1) \o SubSeq(files, index + 1, Len(files))

\* FileUpload.handleRemoveFile
handleRemoveFile(index) ==
  /\ Commit(query, WithoutIndex(uploadedFiles, index), showResults, isInteracting, TRUE)
  /\ UNCHANGED inputQuery
  /\ last' = Event("remove", FALSE, FALSE, IF nextId' # nextId THEN nextId ELSE 0, 0,
                   FALSE, FALSE, NoResponse, Display, NoDisplay)

\* The fetch of request r settles with resp and fetchRecommendations runs to
\* its end.  The setters act on the instance that posted r; once that
\* instance is unmounted they change nothing.
Respond(r, resp) ==
  LET o == TryBlock(resp)
      c == IF Live(r) THEN Settle(Comp(recommendations, loading, error), o)
                      ELSE Comp(recommendations, loading, error)
  IN /\ inflight' = inflight \ {r}
     /\ recommendations' = c.recommendations
     /\ loading' = c.loading
     /\ error' = c.error
     /\ latestOutcome' = IF r.id = nextId - 1 THEN o ELSE latestOutcome
     /\ UNCHANGED <<uploadedFiles, query, showResults, isInteracting, inputQuery,
                    instance, nextId>>
     /\ last' = Event("respond", FALSE, FALSE, 0, r.id,
                      \A s \in inflight : Live(s) => s = r, Live(r), resp, Display,
                      RenderResults(Settle(InitialComp, o)))

Next ==
  \/ \E t \in Texts : onChange(t)
  \/ handleSubmit
  \/ \E files \in SeqsUpTo(FileIds, MaxFiles) : handleDrop(files)
  \/ \E files \in SeqsUpTo(FileIds, MaxFiles) : handleFileSelect(files)
  \/ \E index \in 1..Len(uploadedFiles) : handleRemoveFile(index)
  \/ \E r \in inflight, resp \in Responses : Respond(r, resp)

Spec == Init /\ [][Next]_vars

\* Every fetch settles: the browser delivers a response or a network failure
\* for each request that is outstanding.
FairSpec == Spec /\ WF_vars(\E r \in inflight, resp \in Responses : Respond(r, resp))

\* <RecommendationInput onSubmit={handleQuerySubmit} isProcessing={false} />
\* (variant: the prop follows the results component's loading state)
IsProcessingWhileLoading ==
  ResultsSlot(showResults, isInteracting, uploadedFiles) # "none" /\ loading
IsProcessing == FALSE

\* The Generate button: disabled={!query.trim() || isProcessing}
SubmitDisabled(text, processing) == Trim(text) = <<>> \/ processing

\* =============================================================== claims
\* Shorthands over the event record.
Submitted == last.op = "submit" /\ last.accepted
Answered == last.op = "respond" /\ last.live
\* the request just answered was the only outstanding one of the mounted component
AnsweredAlone == Answered /\ last.sole
Mounted == ResultsSlot(showResults, isInteracting, uploadedFiles) # "none"
LatestOutstanding == \E r \in inflight : r.id = nextId - 1
Malformed2xx(resp) ==
  /\ ~resp.rejects
  /\ resp.ok
  /\ \/ resp.body.json \in {"invalid", "null"}
     \/ resp.body.json = "object" /\ resp.body.recommendations = Undefined

\* C1 (as claimed): when the response of an older request A arrives after the
\* response of the newest request B (both posted by the mounted component),
\* the display shows B's outcome: B's Error message or B's Success text.
StaleResponseSuppressed ==
  (Answered /\ last.answered < nextId - 1 /\ ~LatestOutstanding)
    => /\ latestOutcome.threw => Display = Shown("Error", latestOutcome.message)
       /\ (~latestOutcome.threw /\ Truthy(latestOutcome.data))
            => Display = Shown("Success", latestOutcome.data.s)

\* C2: every request carries a non-empty file sequence, a step that issues a
\* request ends with a non-empty file sequence, and a submit made while the
\* file sequence is empty issues no request.
EmptyFileGuard ==
  /\ \A r \in inflight : Len(r.files) > 0
  /\ last.issued # 0 => Len(uploadedFiles) > 0
  /\ (last.op = "submit" /\ Len(uploadedFiles) = 0) => last.issued = 0
\* a non-empty query was submitted with no files while an earlier request is
\* still outstanding, and no request was issued
EmptyFileGuardWitness ==
  /\ Submitted
  /\ Len(uploadedFiles) = 0
  /\ last.issued = 0
  /\ inflight # {}

\* C3 (as claimed): after a submit of a non-empty query with no files the page
\* shows the 'Upload documents ...' prompt.
NeedsFilesShown ==
  (Submitted /\ Len(uploadedFiles) = 0) => Display.kind = "NeedsFiles"

\* C4 (as claimed): every submit of a non-empty query with at least one file
\* issues a new request, also when query and files are those of the previous
\* submit.
EverySubmitFetches ==
  (Submitted /\ Len(uploadedFiles) > 0) => last.issued # 0

\* C5 (as claimed): while the newest request of the mounted component is
\* unanswered, the display is Loading.
LoadingWhilePending ==
  (Mounted /\ LatestOutstanding) => Display.kind = "Loading"

\* C6: a submit of a new query with at least one file ends in Loading; and an
\* Error message or Success text that comes onto the display does so in a
\* response step and is what that response delivered.
SubmitResetsToLoading ==
  /\ (Submitted /\ last.changed /\ Len(uploadedFiles) > 0)
       => Display.kind = "Loading"
  /\ (Display.kind \in {"Error", "Success"} /\ Display # last.prev)
       => last.op = "respond" /\ Display = last.wrote
\* a new query was submitted while an Error or a Success was displayed
SubmitResetsToLoadingWitness ==
  /\ Submitted
  /\ last.changed
  /\ last.prev.kind \in {"Error", "Success"}
  /\ Display.kind = "Loading"

\* C7 (as claimed): a 2xx response whose body is not JSON or lacks
\* `recommendations`, answering the only outstanding request, ends in Error
\* with a message.
MalformedIsError ==
  (AnsweredAlone /\ Malformed2xx(last.resp))
    => Display.kind = "Error" /\ Display.text # ""

\* C8: a non-2xx response answering the only outstanding request ends in
\* Error; the message is the body's `detail` when the body is JSON with a
\* non-empty detail, and for an unparsable body the status text, or the
\* generic message when the status text is empty.
ErrorSurfacing ==
  (AnsweredAlone /\ ~last.resp.rejects /\ ~last.resp.ok)
    => /\ Display.kind = "Error"
       /\ (last.resp.body.json = "object" /\ Truthy(last.resp.body.detail))
            => Display.text = last.resp.body.detail.s
       /\ last.resp.body.json = "invalid"
            => Display.text = IF last.resp.statusText # ""
                                THEN last.resp.statusText
                                ELSE "Failed to get recommendations"
\* a non-2xx response with {detail: "rate limited"} was just shown
ErrorSurfacingWitness ==
  /\ AnsweredAlone
  /\ ~last.resp.ok
  /\ last.resp.body = Body("object", Str("rate limited"), Undefined)
  /\ Display = Shown("Error", "rate limited")

\* C9 (as claimed): every failure (no response, non-2xx, malformed 2xx body)
\* of a request of the mounted component ends in Error with a message.
FailuresBecomeError ==
  (Answered /\ (last.resp.rejects \/ ~last.resp.ok \/ Malformed2xx(last.resp)))
    => Display.kind = "Error" /\ Display.text # ""

\* C10 (as claimed): a 2xx response {recommendations: r} answering the only
\* outstanding request ends in Success(r), for any string r.
SuccessMapping ==
  (/\ AnsweredAlone
   /\ last.resp.ok
   /\ last.resp.body.json = "object"
   /\ last.resp.body.recommendations.t = "string")
    => Display = Shown("Success", last.resp.body.recommendations.s)

\* C11: a step that edits the text of the query box leaves the submitted
\* query, the outstanding requests and the display as they were; the submitted
\* query changes only in a submit, to the text of the box at that moment; and
\* every request issued carries the submitted query.
QuerySnapshot ==
  [][/\ last'.op = "type"
          => query' = query /\ inflight' = inflight /\ Display' = Display
     /\ query' # query
          => last'.op = "submit" /\ query' = inputQuery /\ inputQuery' = inputQuery
     /\ \A r \in inflight' \ inflight : r.query = query']_vars
\* the text was edited away from the submitted query while a request is
\* outstanding
QuerySnapshotWitness ==
  /\ last.op = "type"
  /\ inflight # {}
  /\ inputQuery # query
  /\ \A r \in inflight : r.query = query

\* C12: an add leaves the old entries where they were and puts the new ones
\* behind them; a remove drops exactly one entry and the others keep their
\* order; so an entry added after a removal is the last one.
IsRemovalAt(old, new, i) ==
  /\ Len(new) = Len(old) - 1
  /\ \A j \in 1..Len(new) : new[j] = IF j < i THEN old[j] ELSE old[j + 1]
Blank(text) == \A i \in 1..Len(text) : text[i] = " "
NonEmptyTrigger ==
  [][/\ (last'.op = "submit" /\ Blank(inputQuery))
          => /\ query' = query
             /\ showResults' = showResults
             /\ isInteracting' = isInteracting
             /\ inflight' = inflight
             /\ nextId' = nextId
     /\ (query' # query \/ showResults' # showResults)
          => last'.op = "submit" /\ ~Blank(inputQuery)
     /\ (last'.op = "submit" /\ ~Blank(inputQuery))
          => query' = inputQuery /\ showResults']_vars
\* a submit event with a whitespace-only text, before any submission
NonEmptyTriggerWitness ==
  /\ last.op = "submit"
  /\ ~last.accepted
  /\ inputQuery = <<" ">>
  /\ ~showResults
  /\ query = <<>>

\* C14: in every state, whatever the display (Loading and Error included),
\* the Generate button is enabled for a text with a non-whitespace character,
\* and the submit, each file add that fits and each file remove can be taken
\* (as long as the run may still issue a request).
Interactive ==
  /\ ~Blank(inputQuery) => ~SubmitDisabled(inputQuery, IsProcessing)
  /\ nextId <= MaxRequests
       => /\ ENABLED handleSubmit
          /\ \A f \in FileIds :
               Len(uploadedFiles) < MaxFiles
                 => ENABLED handleDrop(<<f>>) /\ ENABLED handleFileSelect(<<f>>)
          /\ \A i \in 1..Len(uploadedFiles) : ENABLED handleRemoveFile(i)
\* a request is outstanding, Loading is displayed, and a new query is typed
InteractiveWitness ==
  /\ Display.kind = "Loading"
  /\ inflight # {}
  /\ ~Blank(inputQuery)
  /\ inputQuery # query
  /\ nextId <= MaxRequests

\* C15: a request is issued with the submitted query and the file sequence of
\* that moment, entry by entry; and a request that is still outstanding after
\* a step is the same as before it.
PayloadFixed ==
  [][/\ \A r \in inflight' \ inflight :
          /\ r.query = query'
          /\ Len(r.files) = Len(uploadedFiles')
          /\ \A j \in 1..Len(r.files) : r.files[j] = uploadedFiles'[j]
     /\ \A r \in inflight : (\E s \in inflight' : s.id = r.id) => r \in inflight']_vars
\* a request posted with <<f1, f2>> is outstanding and the files were changed
\* afterwards
PayloadFixedWitness ==
  /\ last.op = "remove"
  /\ \E r \in inflight : r.files = <<"f1", "f2">> /\ r.files # uploadedFiles

\* C16: the response of a request whose component instance was unmounted
\* leaves the display as it was, also after a new instance was mounted.
TeardownSilent ==
  [][\A r \in inflight :
       (/\ last'.op = "respond"
        /\ last'.answered = r.id
        /\ ~Mounted \/ r.inst # instance)
         => /\ Display' = Display
            /\ recommendations' = recommendations
            /\ loading' = loading
            /\ error' = error]_vars
\* the response of a torn-down instance arrived while the new instance loads
TeardownSilentWitness ==
  /\ last.op = "respond"
  /\ ~last.live
  /\ Mounted
  /\ Display.kind = "Loading"
  /\ inflight # {}

\* C17: after a submission, an add or a remove that leaves the file sequence
\* non-empty issues a request with the submitted query and the new file
\* sequence and ends in Loading.
FileChangeRefetches ==
  (last.op \in {"add", "remove"} /\ showResults /\ Len(uploadedFiles) > 0)
    => /\ last.issued # 0
       /\ \E r \in inflight :
            r.id = last.issued /\ r.query = query /\ r.files = uploadedFiles
       /\ Display.kind = "Loading"
\* the first file added after a submission made with no files
FileChangeRefetchesWitness ==
  /\ last.op = "add"
  /\ showResults
  /\ last.prev.kind = "Nothing"
  /\ last.issued # 0
  /\ Display.kind = "Loading"

\* C18: showResults and isInteracting are equal in every state; while they
\* are false no request has been issued; they become true in a submit and are
\* never reset.
FlagsTogether ==
  [][/\ showResults = isInteracting
     /\ showResults' = isInteracting'
     /\ ~showResults => nextId = 1 /\ inflight = {}
     /\ (~showResults /\ last'.op # "submit") => ~showResults' /\ nextId' = 1
     /\ (~showResults /\ showResults') => last'.op = "submit" /\ last'.accepted
     /\ showResults => showResults']_vars
\* the first submission, made after a file was added: it issues request 1
FlagsTogetherWitness ==
  /\ Submitted
  /\ showResults
  /\ isInteracting
  /\ last.issued = 1
  /\ last.prev.kind = "Nothing"

\* C19: the mounted component shows Loading only while one of its requests is
\* outstanding; and, every request being answered, Loading is eventually left
\* for good once no further request is issued.
LoadingEnds ==
  /\ []((Mounted /\ ~\E r \in inflight : Live(r)) => Display.kind # "Loading")
  /\ <>[](Mounted => Display.kind \in {"Error", "Success", "Blank"})
\* the mounted component has left Loading and nothing is outstanding
LoadingEndsWitness ==
  /\ last.op = "respond"
  /\ Mounted
  /\ inflight = {}
  /\ Display.kind \in {"Error", "Success", "Blank"}

====
